---- MODULE Spec2Model ----
(***************************************************************************)
(* The Scan-to-Comic view controller of frontend-ui/src/App.tsx: the React *)
(* state of App, its four handlers, the two asynchronous requests they     *)
(* await (scanFile, generateComic) and the local history store they write. *)
(*                                                                         *)
(* Every handler runs to its first await in one step (the click), and from *)
(* the await to the end of its finally block in a second step (the         *)
(* resolution or rejection of the promise).  JavaScript runs each of these *)
(* to completion, so the steps interleave but never overlap.               *)
(***************************************************************************)
EXTENDS Integers, Sequences, FiniteSets, TLC

(***************************************************************************)
(* Bounds of the model.                                                    *)
(***************************************************************************)
\* number of scans that succeed in one behaviour (each takes a fresh scan id)
MaxScans == 2

(***************************************************************************)
(* Values.                                                                 *)
(***************************************************************************)
\* JavaScript null held by an object-typed state variable
NULL == [null |-> TRUE]
\* JavaScript null held by currentScanId (ids made by generateScanId are 1, 2, ...)
NoScanId == 0
\* JavaScript null held by error
NoError == "<null>"

\* types/api.ts StoryCard: the fields the controller reads
Story1 == [id |-> "s1", title |-> "Left-pad heist"]
Story2 == [id |-> "s2", title |-> "Event-stream saga"]
Stories == {Story1, Story2}

\* types/api.ts ScanResponse values the scan service may return
ScanResults ==
    { [filename |-> "package.json", packageCount |-> 2, storyCards |-> <<Story1, Story2>>],
      [filename |-> "clean.json", packageCount |-> 1, storyCards |-> << >>] }

\* types/api.ts GeneratedComic values the generation service may return
Comics ==
    { [comicHash |-> "h1", title |-> "The Heist", pageCount |-> 2,
       pages |-> <<[pageNumber |-> 1, imageUrl |-> "h1/1.png"],
                   [pageNumber |-> 2, imageUrl |-> "h1/2.png"]>>],
      [comicHash |-> "h2", title |-> "The Saga",  pageCount |-> 1,
       pages |-> <<[pageNumber |-> 1, imageUrl |-> "h2/1.png"]>>] }

\* what a rejected request throws: an ApiError with the server's message, or anything else
Failures ==
    { [isApiError |-> TRUE,  message |-> "Rate limit exceeded"],
      [isApiError |-> FALSE, message |-> "Failed to fetch"] }

SCAN_FALLBACK == "Failed to scan file. Please try again."
GENERATE_FALLBACK == "Failed to generate comic. Please try again."

AppViews == {"upload", "stories", "generating", "comic"}

(***************************************************************************)
(* State.                                                                  *)
(***************************************************************************)
VARIABLES
    view, scanResult, currentScanId, selectedStory, generatedComic,
    isScanning, isGenerating, error,
    history,        \* the local history store: scan id -> ScanHistoryEntry
    nextScanId,     \* the next identifier generateScanId hands out
    scanPending,    \* number of scanFile promises not yet settled
    genPending,     \* outstanding generateComic promises: <<story, captured currentScanId>> -> count
    currentPage,    \* ComicViewer's page index (0 while no viewer is mounted)
    last            \* the step just taken and the values it was given

vars == <<view, scanResult, currentScanId, selectedStory, generatedComic,
          isScanning, isGenerating, error, history, nextScanId, scanPending,
          genPending, currentPage, last>>

\* the closures of handleGenerateComic that can be awaiting: story and the
\* currentScanId of the render that created the callback
GenKeys == Stories \X (1..MaxScans)

RECURSIVE SumOver(_, _)
SumOver(f, S) ==
    IF S = {} THEN 0
    ELSE LET k == CHOOSE k \in S : TRUE IN f[k] + SumOver(f, S \ {k})

\* number of outstanding generateComic requests
TotalPending == SumOver(genPending, GenKeys)
\* number of outstanding generateComic requests for the story with this id
PendingFor(storyId) == SumOver(genPending, {k \in GenKeys : k[1].id = storyId})

Step(op, prev, story, scanId, result, comic, err) ==
    [op |-> op, prevView |-> prev, story |-> story, scanId |-> scanId,
     result |-> result, comic |-> comic, err |-> err]

NoFailure == [isApiError |-> FALSE, message |-> ""]

Init ==
    /\ view = "upload"
    /\ scanResult = NULL
    /\ currentScanId = NoScanId
    /\ selectedStory = NULL
    /\ generatedComic = NULL
    /\ isScanning = FALSE
    /\ isGenerating = FALSE
    /\ error = NoError
    /\ history = << >>
    /\ nextScanId = 1
    /\ scanPending = 0
    /\ genPending = [k \in GenKeys |-> 0]
    /\ currentPage = 0
    /\ last = Step("init", "upload", NULL, NoScanId, NULL, NULL, NoFailure)

(***************************************************************************)
(* lib/storage: the local history store (section 4.2 of the design).       *)
(***************************************************************************)
\* generateScanId(): a fresh identifier
generateScanId == nextScanId

\* saveScan(entry): store the entry under its id
saveScan(store, entry) ==
    [id \in DOMAIN store \cup {entry.id} |->
        IF id = entry.id THEN entry ELSE store[id]]

\* addComicToScan(id, summary): add the summary to the entry unless a summary
\* with that hash is there already; nothing happens when the entry is gone
addComicToScan(store, id, summary) ==
    IF id \notin DOMAIN store THEN store
    ELSE IF \E i \in 1..Len(store[id].comics) : store[id].comics[i].hash = summary.hash
         THEN store
         ELSE [store EXCEPT ![id].comics = Append(@, summary)]

(***************************************************************************)
(* What the rendered page lets the user do.                                *)
(***************************************************************************)
\* the story cards of a scan result, as a set
CardsOf(result) == {result.storyCards[i] : i \in 1..Len(result.storyCards)}

\* variant: the dropzone without its `disabled: isLoading` option
UploadEnabled_NotDisabled == view = "upload"

\* UploadZone is rendered in the upload view and its dropzone is disabled while isLoading
UploadEnabled == view = "upload" /\ ~isScanning

\* the isGenerating prop App passes to the card of this story
CardIsGenerating(story) ==
    isGenerating /\ selectedStory # NULL /\ selectedStory.id = story.id

\* variant: every card's button disabled by the one isGenerating flag
GenerateEnabled_GlobalFlag(story) ==
    /\ view = "stories"
    /\ scanResult # NULL
    /\ story \in CardsOf(scanResult)
    /\ ~isGenerating

\* the card's "Illustrate This Tale" button is rendered in the stories view
\* for each card of scanResult, and disabled by the card's isGenerating prop
GenerateEnabled(story) ==
    /\ view = "stories"
    /\ scanResult # NULL
    /\ story \in CardsOf(scanResult)
    /\ ~CardIsGenerating(story)

\* variant: the comic block rendered on `generatedComic` alone, without `view === 'comic'`
BackEnabled_AnyView == generatedComic # NULL

\* ComicViewer, and with it the "Return to scrolls" button, is rendered in the comic view
BackEnabled == view = "comic" /\ generatedComic # NULL

\* the header button is rendered in every view
StartOverEnabled == TRUE

\* App renders ComicViewer in the comic view when a comic is held
ViewerMounted == view = "comic" /\ generatedComic # NULL

\* ComicViewer's currentPage after a step of App that ends in the given view
\* and comic: React keeps the state of a component that stays rendered, also
\* when its comic prop changes, and a newly mounted viewer starts at useState(0)
ViewerPageAfter(nextView, nextComic) ==
    IF ViewerMounted /\ nextView = "comic" /\ nextComic # NULL THEN currentPage ELSE 0

(***************************************************************************)
(* handleFileSelect                                                        *)
(***************************************************************************)
\* the user drops a file: the handler runs up to `await scanFile(file)`
handleFileSelect ==
    /\ UploadEnabled
    /\ nextScanId <= MaxScans
    /\ isScanning' = TRUE
    /\ error' = NoError
    /\ scanPending' = scanPending + 1
    /\ last' = Step("fileSelect", view, NULL, NoScanId, NULL, NULL, NoFailure)
    /\ UNCHANGED <<view, scanResult, currentScanId, selectedStory, generatedComic,
                   isGenerating, history, nextScanId, genPending>>
    /\ currentPage' = ViewerPageAfter(view', generatedComic')

\* variant: the try block without its closing setView('stories')
scanResolved_NoSetView(result) ==
    /\ scanPending > 0
    /\ LET scanId == generateScanId IN
        /\ scanResult' = result
        /\ currentScanId' = scanId
        /\ history' = saveScan(history,
                        [id |-> scanId, filename |-> result.filename,
                         packageCount |-> result.packageCount,
                         scanResponse |-> result, report |-> NULL, comics |-> << >>])
        /\ nextScanId' = nextScanId + 1
        /\ last' = Step("scanOk", view, NULL, scanId, result, NULL, NoFailure)
    /\ isScanning' = FALSE
    /\ scanPending' = scanPending - 1
    /\ UNCHANGED <<view, selectedStory, generatedComic, isGenerating, error, genPending>>
    /\ currentPage' = ViewerPageAfter(view', generatedComic')

\* scanFile resolves with `result`: the rest of the try block, then finally
scanResolved(result) ==
    /\ scanPending > 0
    /\ LET scanId == generateScanId IN
        /\ scanResult' = result
        /\ currentScanId' = scanId
        /\ history' = saveScan(history,
                        [id |-> scanId, filename |-> result.filename,
                         packageCount |-> result.packageCount,
                         scanResponse |-> result, report |-> NULL, comics |-> << >>])
        /\ nextScanId' = nextScanId + 1
        /\ last' = Step("scanOk", view, NULL, scanId, result, NULL, NoFailure)
    /\ view' = "stories"
    /\ isScanning' = FALSE
    /\ scanPending' = scanPending - 1
    /\ UNCHANGED <<selectedStory, generatedComic, isGenerating, error, genPending>>
    /\ currentPage' = ViewerPageAfter(view', generatedComic')

\* the message the catch block of handleFileSelect stores
scanErrorMessage(err) == IF err.isApiError THEN err.message ELSE SCAN_FALLBACK

\* variant: setIsScanning(false) at the end of the try block instead of in finally
scanRejected_NoFinally(err) ==
    /\ scanPending > 0
    /\ error' = scanErrorMessage(err)
    /\ scanPending' = scanPending - 1
    /\ last' = Step("scanFail", view, NULL, NoScanId, NULL, NULL, err)
    /\ UNCHANGED <<view, scanResult, currentScanId, selectedStory, generatedComic,
                   isScanning, isGenerating, history, nextScanId, genPending>>
    /\ currentPage' = ViewerPageAfter(view', generatedComic')

\* scanFile rejects with `err`: the catch block, then finally
scanRejected(err) ==
    /\ scanPending > 0
    /\ error' = scanErrorMessage(err)
    /\ isScanning' = FALSE
    /\ scanPending' = scanPending - 1
    /\ last' = Step("scanFail", view, NULL, NoScanId, NULL, NULL, err)
    /\ UNCHANGED <<view, scanResult, currentScanId, selectedStory, generatedComic,
                   isGenerating, history, nextScanId, genPending>>
    /\ currentPage' = ViewerPageAfter(view', generatedComic')

(***************************************************************************)
(* handleGenerateComic                                                     *)
(***************************************************************************)
\* variant: the handler without its setError(null)
handleGenerateComic_KeepsError(story) ==
    /\ GenerateEnabled(story)
    /\ selectedStory' = story
    /\ isGenerating' = TRUE
    /\ view' = "generating"
    /\ genPending' = [genPending EXCEPT ![<<story, currentScanId>>] = @ + 1]
    /\ last' = Step("generate", view, story, currentScanId, NULL, NULL, NoFailure)
    /\ UNCHANGED <<scanResult, currentScanId, generatedComic, isScanning, error,
                   history, nextScanId, scanPending>>
    /\ currentPage' = ViewerPageAfter(view', generatedComic')

\* the user presses a card's button: the handler runs up to
\* `await generateComic(story)`; the callback is the one of the current
\* render, so it has closed over the current currentScanId
handleGenerateComic(story) ==
    /\ GenerateEnabled(story)
    /\ selectedStory' = story
    /\ isGenerating' = TRUE
    /\ view' = "generating"
    /\ error' = NoError
    /\ genPending' = [genPending EXCEPT ![<<story, currentScanId>>] = @ + 1]
    /\ last' = Step("generate", view, story, currentScanId, NULL, NULL, NoFailure)
    /\ UNCHANGED <<scanResult, currentScanId, generatedComic, isScanning,
                   history, nextScanId, scanPending>>
    /\ currentPage' = ViewerPageAfter(view', generatedComic')

\* variant: the continuation reading the latest currentScanId instead of the
\* one its callback closed over
generateResolved_LatestScanId(story, capturedScanId, comic) ==
    /\ genPending[<<story, capturedScanId>>] > 0
    /\ generatedComic' = comic
    /\ history' = IF currentScanId # NoScanId
                  THEN addComicToScan(history, currentScanId,
                                      [hash |-> comic.comicHash, title |-> comic.title])
                  ELSE history
    /\ view' = "comic"
    /\ isGenerating' = FALSE
    /\ genPending' = [genPending EXCEPT ![<<story, capturedScanId>>] = @ - 1]
    /\ last' = Step("genOk", view, story, capturedScanId, NULL, comic, NoFailure)
    /\ UNCHANGED <<scanResult, currentScanId, selectedStory, isScanning, error,
                   nextScanId, scanPending>>
    /\ currentPage' = ViewerPageAfter(view', generatedComic')

\* generateComic resolves with `comic` for the call made with `story` under
\* `capturedScanId`: the rest of the try block, then finally
generateResolved(story, capturedScanId, comic) ==
    /\ genPending[<<story, capturedScanId>>] > 0
    /\ generatedComic' = comic
    /\ history' = IF capturedScanId # NoScanId
                  THEN addComicToScan(history, capturedScanId,
                                      [hash |-> comic.comicHash, title |-> comic.title])
                  ELSE history
    /\ view' = "comic"
    /\ isGenerating' = FALSE
    /\ genPending' = [genPending EXCEPT ![<<story, capturedScanId>>] = @ - 1]
    /\ last' = Step("genOk", view, story, capturedScanId, NULL, comic, NoFailure)
    /\ UNCHANGED <<scanResult, currentScanId, selectedStory, isScanning, error,
                   nextScanId, scanPending>>
    /\ currentPage' = ViewerPageAfter(view', generatedComic')

\* variant: the catch block without its `instanceof ApiError` branch
generateErrorMessage_AlwaysFallback(err) == GENERATE_FALLBACK

\* the message the catch block of handleGenerateComic stores
generateErrorMessage(err) == IF err.isApiError THEN err.message ELSE GENERATE_FALLBACK

\* variant: the catch block also calling setGeneratedComic(null)
generateRejected_ClearsComic(story, capturedScanId, err) ==
    /\ genPending[<<story, capturedScanId>>] > 0
    /\ error' = generateErrorMessage(err)
    /\ generatedComic' = NULL
    /\ view' = "stories"
    /\ isGenerating' = FALSE
    /\ genPending' = [genPending EXCEPT ![<<story, capturedScanId>>] = @ - 1]
    /\ last' = Step("genFail", view, story, capturedScanId, NULL, NULL, err)
    /\ UNCHANGED <<scanResult, currentScanId, selectedStory,
                   isScanning, history, nextScanId, scanPending>>
    /\ currentPage' = ViewerPageAfter(view', generatedComic')

\* generateComic rejects with `err`: the catch block, then finally
generateRejected(story, capturedScanId, err) ==
    /\ genPending[<<story, capturedScanId>>] > 0
    /\ error' = generateErrorMessage(err)
    /\ view' = "stories"
    /\ isGenerating' = FALSE
    /\ genPending' = [genPending EXCEPT ![<<story, capturedScanId>>] = @ - 1]
    /\ last' = Step("genFail", view, story, capturedScanId, NULL, NULL, err)
    /\ UNCHANGED <<scanResult, currentScanId, selectedStory, generatedComic,
                   isScanning, history, nextScanId, scanPending>>
    /\ currentPage' = ViewerPageAfter(view', generatedComic')

(***************************************************************************)
(* Navigation handlers                                                     *)
(***************************************************************************)
\* variant: back also calling setError(null)
handleBackToStories_ClearsError ==
    /\ BackEnabled
    /\ generatedComic' = NULL
    /\ selectedStory' = NULL
    /\ error' = NoError
    /\ view' = "stories"
    /\ last' = Step("back", view, NULL, NoScanId, NULL, NULL, NoFailure)
    /\ UNCHANGED <<scanResult, currentScanId, isScanning, isGenerating,
                   history, nextScanId, scanPending, genPending>>
    /\ currentPage' = ViewerPageAfter(view', generatedComic')

handleBackToStories ==
    /\ BackEnabled
    /\ generatedComic' = NULL
    /\ selectedStory' = NULL
    /\ view' = "stories"
    /\ last' = Step("back", view, NULL, NoScanId, NULL, NULL, NoFailure)
    /\ UNCHANGED <<scanResult, currentScanId, isScanning, isGenerating, error,
                   history, nextScanId, scanPending, genPending>>
    /\ currentPage' = ViewerPageAfter(view', generatedComic')

\* variant: start over without its setCurrentScanId(null)
handleStartOver_KeepsScanId ==
    /\ StartOverEnabled
    /\ scanResult' = NULL
    /\ selectedStory' = NULL
    /\ generatedComic' = NULL
    /\ error' = NoError
    /\ view' = "upload"
    /\ last' = Step("startOver", view, NULL, NoScanId, NULL, NULL, NoFailure)
    /\ UNCHANGED <<currentScanId, isScanning, isGenerating, history, nextScanId,
                   scanPending, genPending>>
    /\ currentPage' = ViewerPageAfter(view', generatedComic')

\* variant: start over without its setSelectedStory(null)
handleStartOver_KeepsSelection ==
    /\ StartOverEnabled
    /\ scanResult' = NULL
    /\ currentScanId' = NoScanId
    /\ generatedComic' = NULL
    /\ error' = NoError
    /\ view' = "upload"
    /\ last' = Step("startOver", view, NULL, NoScanId, NULL, NULL, NoFailure)
    /\ UNCHANGED <<selectedStory, isScanning, isGenerating, history, nextScanId,
                   scanPending, genPending>>
    /\ currentPage' = ViewerPageAfter(view', generatedComic')

\* variant: start over without its setError(null)
handleStartOver_KeepsError ==
    /\ StartOverEnabled
    /\ scanResult' = NULL
    /\ currentScanId' = NoScanId
    /\ selectedStory' = NULL
    /\ generatedComic' = NULL
    /\ view' = "upload"
    /\ last' = Step("startOver", view, NULL, NoScanId, NULL, NULL, NoFailure)
    /\ UNCHANGED <<error, isScanning, isGenerating, history, nextScanId, scanPending,
                   genPending>>
    /\ currentPage' = ViewerPageAfter(view', generatedComic')

handleStartOver ==
    /\ StartOverEnabled
    /\ scanResult' = NULL
    /\ currentScanId' = NoScanId
    /\ selectedStory' = NULL
    /\ generatedComic' = NULL
    /\ error' = NoError
    /\ view' = "upload"
    /\ last' = Step("startOver", view, NULL, NoScanId, NULL, NULL, NoFailure)
    /\ UNCHANGED <<isScanning, isGenerating, history, nextScanId, scanPending,
                   genPending>>
    /\ currentPage' = ViewerPageAfter(view', generatedComic')

\* the outstanding scan settles, either way
scanSettles ==
    \/ \E result \in ScanResults : scanResolved(result)
    \/ \E err \in Failures : scanRejected(err)

(***************************************************************************)
(* ComicViewer                                                             *)
(***************************************************************************)
\* the "previous" button and the ArrowLeft key: a no-op unless hasPrev
handlePrev ==
    /\ ViewerMounted
    /\ currentPage > 0
    /\ currentPage' = currentPage - 1
    /\ last' = Step("prevPage", view, NULL, NoScanId, NULL, NULL, NoFailure)
    /\ UNCHANGED <<view, scanResult, currentScanId, selectedStory, generatedComic,
                   isScanning, isGenerating, error, history, nextScanId,
                   scanPending, genPending>>

\* the "next" button and the ArrowRight key: a no-op unless hasNext
handleNext ==
    /\ ViewerMounted
    /\ currentPage < Len(generatedComic.pages) - 1
    /\ currentPage' = currentPage + 1
    /\ last' = Step("nextPage", view, NULL, NoScanId, NULL, NULL, NoFailure)
    /\ UNCHANGED <<view, scanResult, currentScanId, selectedStory, generatedComic,
                   isScanning, isGenerating, error, history, nextScanId,
                   scanPending, genPending>>

\* the page dot of pages[index]
setCurrentPage(index) ==
    /\ ViewerMounted
    /\ index \in 0..(Len(generatedComic.pages) - 1)
    /\ currentPage' = index
    /\ last' = Step("pageDot", view, NULL, NoScanId, NULL, NULL, NoFailure)
    /\ UNCHANGED <<view, scanResult, currentScanId, selectedStory, generatedComic,
                   isScanning, isGenerating, error, history, nextScanId,
                   scanPending, genPending>>

(***************************************************************************)
(* Specification                                                           *)
(***************************************************************************)
Next ==
    \/ handleFileSelect
    \/ \E result \in ScanResults : scanResolved(result)
    \/ \E err \in Failures : scanRejected(err)
    \/ \E story \in Stories : handleGenerateComic(story)
    \/ \E k \in GenKeys, comic \in Comics : generateResolved(k[1], k[2], comic)
    \/ \E k \in GenKeys, err \in Failures : generateRejected(k[1], k[2], err)
    \/ handleBackToStories
    \/ handleStartOver
    \/ handlePrev
    \/ handleNext
    \/ \E comic \in Comics : \E index \in 0..(Len(comic.pages) - 1) : setCurrentPage(index)

Spec == Init /\ [][Next]_vars

TypeOK ==
    /\ view \in AppViews
    /\ scanResult \in ScanResults \cup {NULL}
    /\ currentScanId \in 0..MaxScans
    /\ selectedStory \in Stories \cup {NULL}
    /\ generatedComic \in Comics \cup {NULL}
    /\ isScanning \in BOOLEAN /\ isGenerating \in BOOLEAN
    /\ scanPending \in 0..1
    /\ TotalPending <= MaxScans
    /\ currentPage \in Nat

(***************************************************************************)
(* Properties of the controller                                            *)
(***************************************************************************)
\* the summary handleGenerateComic stores for a comic
SummaryOf(comic) == [hash |-> comic.comicHash, title |-> comic.title]

\* number of summaries with this hash in an entry's comic list
CountHash(comics, hash) == Cardinality({i \in 1..Len(comics) : comics[i].hash = hash})

\* C1: start over, in whatever state it is invoked (it is always enabled, also
\* while a scan or a generation is outstanding), leaves view = upload with
\* scanResult, currentScanId, selectedStory, generatedComic and error null,
\* and the step itself leaves the history store as it was.
C1_StartOverResets ==
    /\ [](ENABLED handleStartOver)
    /\ [][last'.op = "startOver" =>
            /\ view' = "upload"
            /\ scanResult' = NULL
            /\ currentScanId' = NoScanId
            /\ selectedStory' = NULL
            /\ generatedComic' = NULL
            /\ error' = NoError
            /\ history' = history
            /\ nextScanId' = nextScanId]_vars

\* start over taken while a scan and a generation are outstanding and the store holds an entry
C1_Witness ==
    /\ last.op = "startOver"
    /\ scanPending > 0
    /\ TotalPending > 0
    /\ DOMAIN history # {}

\* C2: right after a scan resolves, view = stories, scanResult is the returned
\* result, and the store holds, under an id that was not in the store before
\* and now is currentScanId, an entry embedding the returned result with an
\* empty comic list and a null report.
C2_ScanSuccess ==
    [][last'.op = "scanOk" =>
            /\ view' = "stories"
            /\ scanResult' = last'.result
            /\ currentScanId' # NoScanId
            /\ currentScanId' \notin DOMAIN history
            /\ currentScanId' \in DOMAIN history'
            /\ history'[currentScanId'].id = currentScanId'
            /\ history'[currentScanId'].scanResponse = last'.result
            /\ history'[currentScanId'].comics = << >>
            /\ history'[currentScanId'].report = NULL
            /\ \A id \in DOMAIN history : history'[id] = history[id]]_vars

\* a second scan has just succeeded while a generation of the first is still outstanding
C2_Witness ==
    /\ last.op = "scanOk"
    /\ Cardinality(DOMAIN history) = 2
    /\ TotalPending > 0
    /\ last.result.storyCards # << >>

\* C3: right after a scan fails the view is upload and error is the ApiError's
\* message, or the scan fallback for any other failure.
C3_FailedScanStaysOnUpload ==
    last.op = "scanFail" =>
        /\ view = "upload"
        /\ error = IF last.err.isApiError THEN last.err.message
                   ELSE "Failed to scan file. Please try again."

\* C4: generate on story S moves the view to generating with one request for
\* S outstanding, and whenever a request for S is outstanding the generate
\* control of S is disabled or absent, so there is never a second one.
C4_NoSecondRequestForStory ==
    /\ last.op = "generate" => view = "generating" /\ PendingFor(last.story.id) = 1
    /\ \A s \in Stories :
          PendingFor(s.id) >= 1 => PendingFor(s.id) = 1 /\ ~GenerateEnabled(s)

\* C5: at most one comic generation request is outstanding.
C5_AtMostOneGeneration == TotalPending <= 1

C7_FailureClearsSelection ==
    last.op = "genFail" =>
        /\ view = "stories"
        /\ selectedStory = NULL
        /\ error # NoError
        /\ error = IF last.err.isApiError THEN last.err.message
                   ELSE "Failed to generate comic. Please try again."

\* C7 amended: right after a generation fails, view = stories, error is the
\* ApiError's message or the generate fallback, and selectedStory is what it
\* was before the failure (the catch block does not clear it).
C7_FailureKeepsSelection ==
    [][last'.op = "genFail" =>
            /\ view' = "stories"
            /\ selectedStory' = selectedStory
            /\ error' # NoError
            /\ error' = IF last'.err.isApiError THEN last'.err.message
                        ELSE "Failed to generate comic. Please try again."]_vars

\* a generation has just failed with an ApiError and the story is still selected
C7_Witness ==
    /\ last.op = "genFail"
    /\ last.err.isApiError
    /\ selectedStory = last.story
    /\ view = "stories"

\* C8: at most one scan request is outstanding, and while it is, isScanning
\* holds and the file input is disabled, also after start over.
C8_AtMostOneScan ==
    /\ scanPending <= 1
    /\ scanPending = 1 => isScanning /\ ~UploadEnabled
    /\ last.op = "fileSelect" => scanPending = 1

\* start over was taken while the scan is outstanding and the upload view is shown
C8_Witness ==
    /\ scanPending = 1
    /\ last.op = "startOver"
    /\ last.prevView = "upload"
    /\ view = "upload"

\* C9 as stated: the view leaves generating only by a generation request
\* resolving or rejecting, never by a user action.
C9_OnlyResolutionLeavesGenerating ==
    [][view = "generating" /\ view' # "generating" =>
            last'.op \in {"genOk", "genFail"}]_vars

\* C9 amended: while the view is generating, the request that moved it there
\* is outstanding, no scan is outstanding, and start over is the only enabled
\* user action; the view leaves generating only by start over or by a
\* generation request (that one or an earlier one) resolving or rejecting.
C9_GeneratingHeld ==
    /\ [](view = "generating" =>
            /\ selectedStory # NULL
            /\ currentScanId # NoScanId
            /\ genPending[<<selectedStory, currentScanId>>] >= 1
            /\ scanPending = 0
            /\ ~UploadEnabled
            /\ ~BackEnabled
            /\ \A s \in Stories : ~GenerateEnabled(s))
    /\ [][view = "generating" /\ view' # "generating" =>
            last'.op \in {"startOver", "genOk", "genFail"}]_vars
    /\ [][view = "generating" /\ last'.op \notin {"genOk", "genFail"} =>
            last'.op = "startOver"]_vars

\* start over was taken in the generating view and the request is still outstanding
C9_Witness ==
    /\ last.op = "startOver"
    /\ last.prevView = "generating"
    /\ isGenerating
    /\ TotalPending = 1
    /\ scanPending = 0

\* C10: back sets view = stories and generatedComic and selectedStory to null,
\* and leaves scanResult, currentScanId, error and the history store as they were.
C10_BackToStories ==
    [][last'.op = "back" =>
            /\ view' = "stories"
            /\ generatedComic' = NULL
            /\ selectedStory' = NULL
            /\ scanResult' = scanResult
            /\ currentScanId' = currentScanId
            /\ error' = error
            /\ history' = history]_vars

\* back has just been taken from a comic while an error was shown and the store holds an entry
C10_Witness ==
    /\ last.op = "back"
    /\ last.prevView = "comic"
    /\ error # NoError
    /\ DOMAIN history # {}

\* C11: a failed scan leaves scanResult, currentScanId and the history store
\* as they were, and a failed generation leaves generatedComic and the
\* history store as they were.
C11_FailureStoresNothing ==
    [][/\ last'.op = "scanFail" =>
            /\ scanResult' = scanResult
            /\ currentScanId' = currentScanId
            /\ history' = history
            /\ nextScanId' = nextScanId
       /\ last'.op = "genFail" =>
            /\ generatedComic' = generatedComic
            /\ history' = history]_vars

\* a generation has just failed while a comic of an earlier request is held
C11_Witness ==
    /\ last.op = "genFail"
    /\ generatedComic # NULL
    /\ DOMAIN history # {}
    /\ error # NoError

C13_NoComicWhileGenerating == view = "generating" => generatedComic = NULL

\* C14: error is null right after a scan is issued, a generation is issued or
\* start over; a failed scan stores a message and leaves the view alone, a
\* failed generation stores a message and sets the view to stories; and
\* nothing else changes error.
C14_ErrorTransient ==
    [][/\ last'.op \in {"fileSelect", "generate", "startOver"} => error' = NoError
       /\ last'.op = "scanFail" => view' = view /\ error' # NoError
       /\ last'.op = "genFail" => view' = "stories" /\ error' # NoError
       /\ error' # error =>
             last'.op \in {"fileSelect", "generate", "startOver", "scanFail", "genFail"}
       /\ error' # error /\ error' # NoError /\ view' # view => last'.op = "genFail"]_vars

\* a scan has just failed with something other than an ApiError, on the upload view
C14_Witness ==
    /\ last.op = "scanFail"
    /\ ~last.err.isApiError
    /\ last.prevView = "upload"
    /\ view = "upload"
    /\ error = SCAN_FALLBACK

\* C15: a request for a different story can be issued while another story's
\* request is pending: whenever a request for one story is outstanding and
\* the stories view shows the card of another story, that card's generate
\* control is enabled, and issuing a request withdraws none.
C15_OtherStoryCanBeRequested ==
    /\ [](\A s \in Stories, t \in Stories :
            (/\ PendingFor(s.id) >= 1
             /\ t.id # s.id
             /\ view = "stories"
             /\ scanResult # NULL
             /\ t \in CardsOf(scanResult)) => GenerateEnabled(t))
    /\ [][last'.op = "generate" =>
            \A k \in GenKeys :
                genPending'[k] = genPending[k] + (IF k = <<last'.story, last'.scanId>> THEN 1 ELSE 0)]_vars

\* requests for two different stories are outstanding at the same time
C15_Witness ==
    /\ PendingFor(Story1.id) >= 1
    /\ PendingFor(Story2.id) >= 1
    /\ last.op = "generate"

\* C16: once the view is upload it stays upload until a scan succeeds, and a
\* generation that resolves or rejects meanwhile changes none of view,
\* generatedComic, error and selectedStory.
C16_UploadHeldUntilScanSucceeds ==
    [][view = "upload" =>
            /\ view' # "upload" => last'.op = "scanOk"
            /\ last'.op \in {"genOk", "genFail"} =>
                  /\ view' = view
                  /\ generatedComic' = generatedComic
                  /\ error' = error
                  /\ selectedStory' = selectedStory]_vars

\* C17: in the stories view scanResult is non-null.
C17_StoriesHasScanResult == view = "stories" => scanResult # NULL

\* C18: view = comic implies a comic is held, view = generating implies a
\* story is selected, and view = upload implies scanResult, selectedStory and
\* generatedComic are all null.
C18_ViewShape ==
    /\ view = "comic" => generatedComic # NULL
    /\ view = "generating" => selectedStory # NULL
    /\ view = "upload" =>
          scanResult = NULL /\ selectedStory = NULL /\ generatedComic = NULL

\* start over has just left a comic while a generation is still outstanding
C18_Witness ==
    /\ view = "upload"
    /\ last.op = "startOver"
    /\ last.prevView = "comic"
    /\ TotalPending >= 1

\* C19: whenever the comic viewer is displayed, 0 <= currentPage <
\* comic.pages.length for the comic it is given.
C19_PageInRange ==
    ViewerMounted =>
        currentPage >= 0 /\ currentPage < Len(generatedComic.pages)

\* C20: scanResult is null exactly when currentScanId is null, and when they
\* are non-null the history store holds, under currentScanId, the entry whose
\* embedded scan result is scanResult.
C20_ScanIdMatchesResult ==
    /\ scanResult = NULL <=> currentScanId = NoScanId
    /\ scanResult # NULL =>
          /\ currentScanId \in DOMAIN history
          /\ history[currentScanId].id = currentScanId
          /\ history[currentScanId].scanResponse = scanResult

\* a comic has just been delivered under the second scan, whose entry is the current one
C20_Witness ==
    /\ scanResult # NULL
    /\ currentScanId # NoScanId
    /\ Cardinality(DOMAIN history) >= 2
    /\ last.op = "genOk"
    /\ last.scanId = currentScanId
    /\ history[currentScanId].comics # << >>

\* C21: isGenerating holds exactly when at least one generation request is
\* outstanding, and isScanning exactly when a scan request is outstanding.
C21_FlagsMatchOutstanding ==
    /\ isGenerating <=> TotalPending >= 1
    /\ isScanning <=> scanPending >= 1

====
